---- MODULE Spec2Model ----
(***************************************************************************)
(* pdftool.py: the page-specification parser (parse_one_pagespec,          *)
(* parse_pagespec) and the script's file population and merge loop.        *)
(* Strings are sequences of one-character strings.                         *)
(***************************************************************************)
EXTENDS Integers, Sequences, FiniteSets, TLC

\* ---------------------------------------------------------------- bounds
MaxLen == 4
MaxPages == 2
NumBound == 22
MaxFiles == 2

\* Characters a page spec is typed from.
Chars == {"0", "1", "2", "-", ",", " ", "a", "l", "A"}
Digits == {"0", "1", "2", "3", "4", "5", "6", "7", "8", "9"}
Whitespace == {" "}

\* ------------------------------------------------------- string helpers
DigitVal(c) ==
  CASE c = "0" -> 0 [] c = "1" -> 1 [] c = "2" -> 2 [] c = "3" -> 3
    [] c = "4" -> 4 [] c = "5" -> 5 [] c = "6" -> 6 [] c = "7" -> 7
    [] c = "8" -> 8 [] c = "9" -> 9

LowerChar(c) ==
  CASE c = "A" -> "a" [] c = "B" -> "b" [] c = "D" -> "d" [] c = "L" -> "l"
    [] OTHER -> c

\* str.lower()
Lower(s) == [i \in 1..Len(s) |-> LowerChar(s[i])]

RECURSIVE LStrip(_)
LStrip(s) ==
  IF s # <<>> /\ Head(s) \in Whitespace THEN LStrip(Tail(s)) ELSE s

RECURSIVE RStrip(_)
RStrip(s) ==
  IF s # <<>> /\ s[Len(s)] \in Whitespace
  THEN RStrip(SubSeq(s, 1, Len(s) - 1)) ELSE s

\* str.strip()
Strip(s) == RStrip(LStrip(s))

\* str.count(c)
Count(s, c) == Cardinality({i \in 1..Len(s) : s[i] = c})

\* position of the first c in s, 0 when there is none
Find(s, c) ==
  IF \E i \in 1..Len(s) : s[i] = c
  THEN CHOOSE i \in 1..Len(s) : s[i] = c /\ \A j \in 1..(i - 1) : s[j] # c
  ELSE 0

\* str.split(c): every piece, the empty ones included
RECURSIVE Split(_, _)
Split(s, c) ==
  LET k == Find(s, c) IN
  IF k = 0 THEN <<s>>
  ELSE <<SubSeq(s, 1, k - 1)>> \o Split(SubSeq(s, k + 1, Len(s)), c)

\* int(s) accepts surrounding whitespace and leading zeros, nothing else here
IsInt(s) ==
  LET t == Strip(s) IN t # <<>> /\ \A i \in 1..Len(t) : t[i] \in Digits

RECURSIVE DecVal(_)
DecVal(t) ==
  IF t = <<>> THEN 0
  ELSE 10 * DecVal(SubSeq(t, 1, Len(t) - 1)) + DigitVal(t[Len(t)])

IntVal(s) == DecVal(Strip(s))

Min(a, b) == IF a <= b THEN a ELSE b

\* list(range(a, b + 1))
Range(a, b) == IF b < a THEN <<>> ELSE [i \in 1..(b - a + 1) |-> a + i - 1]

\* ------------------------------------------------------------ the parser
Raise == [raised |-> TRUE, pages |-> <<>>]
Return(ps) == [raised |-> FALSE, pages |-> ps]

\* "-B": lines 92-97
OpenStart(end, max_pages) ==
  IF ~IsInt(end) THEN Raise
  ELSE IF IntVal(end) < 1 THEN Raise
  ELSE Return(Range(1, Min(IntVal(end), max_pages)))

\* OpenEnd with the start left unclamped
OpenEndUnclamped(start, max_pages) ==
  IF ~IsInt(start) THEN Raise
  ELSE IF IntVal(start) < 1 THEN Raise
  ELSE Return(Range(IntVal(start), max_pages))

\* "A-": lines 98-103
OpenEnd(start, max_pages) ==
  IF ~IsInt(start) THEN Raise
  ELSE IF IntVal(start) < 1 THEN Raise
  ELSE Return(Range(Min(IntVal(start), max_pages), max_pages))

\* ClosedRange with the ordering check made after clamping
ClosedRangeClampFirst(start, end, max_pages) ==
  IF ~IsInt(start) \/ ~IsInt(end) THEN Raise
  ELSE IF IntVal(start) < 1 \/ IntVal(end) < 1
          \/ Min(IntVal(start), max_pages) > Min(IntVal(end), max_pages)
       THEN Raise
  ELSE Return(Range(Min(IntVal(start), max_pages),
                    Min(IntVal(end), max_pages)))

\* "A-B": lines 104-110
ClosedRange(start, end, max_pages) ==
  IF ~IsInt(start) \/ ~IsInt(end) THEN Raise
  ELSE IF IntVal(start) < 1 \/ IntVal(end) < 1
          \/ IntVal(start) > IntVal(end) THEN Raise
  ELSE Return(Range(Min(IntVal(start), max_pages),
                    Min(IntVal(end), max_pages)))

\* SinglePage with a number below 1 clamped up instead of rejected
SinglePageClampZero(t, max_pages) ==
  IF ~IsInt(t) THEN Raise
  ELSE IF IntVal(t) < 1 THEN Return(Range(1, Min(1, max_pages)))
  ELSE Return(<<Min(IntVal(t), max_pages)>>)

\* a token without "-": lines 111-115
SinglePage(t, max_pages) ==
  IF ~IsInt(t) THEN Raise
  ELSE IF IntVal(t) < 1 THEN Raise
  ELSE Return(<<Min(IntVal(t), max_pages)>>)

\* parse_one_pagespec(token, max_pages)
parse_one_pagespec(token, max_pages) ==
  LET t == Lower(Strip(token)) IN
  IF t = <<>> THEN Return(<<>>)
  ELSE IF t = <<"a", "l", "l">> THEN Return(Range(1, max_pages))
  ELSE IF Count(t, "-") > 0 THEN
    IF Count(t, "-") > 1 THEN Raise
    ELSE
      LET k == Find(t, "-")
          start == SubSeq(t, 1, k - 1)
          end == SubSeq(t, k + 1, Len(t))
      IN
      IF start = <<>> /\ end = <<>> THEN Raise
      ELSE IF start = <<>> THEN OpenStart(end, max_pages)
      ELSE IF end = <<>> THEN OpenEnd(start, max_pages)
      ELSE ClosedRange(start, end, max_pages)
  ELSE SinglePage(t, max_pages)

\* [p for p in spec.split(",") if p.strip()]
SelectNonBlank(ps) == SelectSeq(ps, LAMBDA p : Strip(p) # <<>>)

\* the loop "for part in parts: pages.extend(...)": the first raise aborts
RECURSIVE Extend(_, _)
Extend(parts, max_pages) ==
  IF parts = <<>> THEN Return(<<>>)
  ELSE
    LET one == parse_one_pagespec(Head(parts), max_pages) IN
    IF one.raised THEN Raise
    ELSE
      LET rest == Extend(Tail(parts), max_pages) IN
      IF rest.raised THEN Raise ELSE Return(one.pages \o rest.pages)

\* Uniq keeping the last occurrence of a page instead of the first
RECURSIVE UniqKeepLast(_, _)
UniqKeepLast(pages, seen) ==
  IF pages = <<>> THEN <<>>
  ELSE IF \E i \in 2..Len(pages) : pages[i] = Head(pages)
       THEN UniqKeepLast(Tail(pages), seen)
  ELSE <<Head(pages)>> \o UniqKeepLast(Tail(pages), seen)

\* the loop "for p in pages: if p not in seen: uniq.append(p)"
RECURSIVE Uniq(_, _)
Uniq(pages, seen) ==
  IF pages = <<>> THEN <<>>
  ELSE IF Head(pages) \in seen THEN Uniq(Tail(pages), seen)
  ELSE <<Head(pages)>> \o Uniq(Tail(pages), seen \cup {Head(pages)})

\* parse_pagespec(spec, max_pages); parts is the token list of either form
ParseParts(parts, max_pages) ==
  LET ext == Extend(parts, max_pages) IN
  IF ext.raised THEN Raise ELSE Return(Uniq(ext.pages, {}))

parse_pagespec(is_str, spec, max_pages) ==
  ParseParts(IF is_str THEN SelectNonBlank(Split(spec, ",")) ELSE spec,
             max_pages)

\* ------------------------------------------------------ the documents
\* File names (f.name, or str(path) in the folder tab).
Names == {<<"b">>, <<"A">>, <<"d", "/", "a">>}

\* File contents: documents of 0, 1 and 3 pages, none encrypted, and bytes
\* that are no PDF.
Docs == {"d0", "d1", "d3", "dx"}

\* A file's bytes and the text of its "Pages for ..." field.
FileKinds ==
  {<<"d3", <<"a", "l", "l">>>>, <<"d3", <<>>>>, <<"d3", <<"2", ",", "1">>>>,
   <<"d3", <<"3", "-">>>>, <<"d3", <<"0">>>>,
   <<"d1", <<"a", "l", "l">>>>, <<"d1", <<>>>>, <<"d1", <<"3", "-">>>>,
   <<"d1", <<" ", ",">>>>,
   <<"d0", <<"a", "l", "l">>>>, <<"d0", <<"2", ",", "1">>>>,
   <<"dx", <<"a", "l", "l">>>>}

\* try_open_reader(data): the reader, or None
try_open_reader(data) == IF data = "dx" THEN "None" ELSE data

\* get_num_pages_safe(reader)
get_num_pages_safe(reader) ==
  CASE reader = "d1" -> 1 [] reader = "d3" -> 3 [] OTHER -> 0

\* hashlib.md5(data_bytes).hexdigest()[:8]
Digest(data) ==
  CASE data = "d0" -> "d41d8cd9" [] data = "d1" -> "0cc175b9"
    [] data = "d3" -> "92eb5ffe" [] OTHER -> "8277e091"

\* _unique_key(prefix, name_or_path, data_bytes)
unique_key(prefix, name, data) == <<prefix, name, Digest(data)>>

\* fitz.open(stream=data, filetype="pdf"), None when it raises; PyMuPDF is
\* installed
OpenPreview(data) ==
  CASE data = "d0" -> "fitz(d0)" [] data = "d1" -> "fitz(d1)"
    [] data = "d3" -> "fitz(d3)" [] OTHER -> "None"

\* doc.page_count
PageCountOf(doc) ==
  CASE doc = "fitz(d1)" -> 1 [] doc = "fitz(d3)" -> 3 [] OTHER -> 0

\* _load_doc_for_preview(data) under st.cache_resource: the stored document
\* for these bytes when there is one, a newly opened one otherwise
load_doc_for_preview(cache, data) ==
  IF data \in DOMAIN cache THEN cache[data] ELSE OpenPreview(data)

\* render_page_image(data, page_index0) has an image to return
render_page_image(cache, data, page_index0) ==
  /\ load_doc_for_preview(cache, data) # "None"
  /\ 0 <= page_index0
  /\ page_index0 < PageCountOf(load_doc_for_preview(cache, data))

\* Path(name).name
Basename(name) ==
  LET slashes == {i \in 1..Len(name) : name[i] = "/"} IN
  IF slashes = {} THEN name
  ELSE SubSeq(name, (CHOOSE i \in slashes : \A j \in slashes : j <= i) + 1,
              Len(name))

\* ord(c)
CharCode(c) ==
  CASE c = "/" -> 47 [] c = "A" -> 65 [] c = "a" -> 97 [] c = "b" -> 98
    [] c = "d" -> 100 [] OTHER -> 32

\* a < b on strings
RECURSIVE StrLess(_, _)
StrLess(a, b) ==
  IF b = <<>> THEN FALSE
  ELSE IF a = <<>> THEN TRUE
  ELSE IF CharCode(Head(a)) # CharCode(Head(b))
       THEN CharCode(Head(a)) < CharCode(Head(b))
  ELSE StrLess(Tail(a), Tail(b))

\* ------------------------------------------------------- the upload tab
\* selections[name] = pages_list
DictSet(d, k, v) == [x \in DOMAIN d \cup {k} |-> IF x = k THEN v ELSE d[x]]

EmptyDict == [x \in {} |-> <<>>]

\* the state the script builds: selections, file_entries, the widget keys
\* used so far, whether a duplicate widget key has stopped the run, the
\* documents st.cache_resource holds and the previews rendered
FreshRun ==
  [selections |-> EmptyDict, file_entries |-> <<>>, keys |-> {},
   crashed |-> FALSE, cache |-> EmptyDict, previews |-> <<>>]

\* a run of the script in a process whose st.cache_resource holds cache
StartRun(cache) == [FreshRun EXCEPT !.cache = cache]

\* "Review this PDF": page_selector at its default page 1, null for a
\* document without pages, then render_page_image(data, pnum - 1)
ReviewPdf(acc, f, pages) ==
  IF pages < 1 THEN acc
  ELSE [acc EXCEPT
          !.cache = DictSet(@, f.data, load_doc_for_preview(acc.cache, f.data)),
          !.previews =
            Append(@, [name |-> f.name, data |-> f.data,
                       doc |-> load_doc_for_preview(acc.cache, f.data),
                       image |-> render_page_image(acc.cache, f.data, 0)])]

\* StoreSelection with an empty page list stored and loaded like any other
StoreSelectionKeepEmpty(acc, f, r) ==
  IF r.raised THEN acc
  ELSE [acc EXCEPT !.selections = DictSet(@, f.name, r.pages),
                   !.file_entries = Append(@, <<f.name, f.data>>)]

\* "try: pages_list = parse_pagespec(spec, pages) ... except", r being the
\* outcome of the call
StoreSelection(acc, f, r) ==
  IF r.raised THEN acc
  ELSE IF r.pages = <<>> THEN acc
  ELSE [acc EXCEPT !.selections = DictSet(@, f.name, r.pages),
                   !.file_entries = Append(@, <<f.name, f.data>>)]

\* one iteration of "for f in uploaded"; a widget key met twice in a run
\* stops the script
UploadStep(acc, f) ==
  IF acc.crashed \/ try_open_reader(f.data) = "None" THEN acc
  ELSE IF unique_key("spec", f.name, f.data) \in acc.keys
       THEN [acc EXCEPT !.crashed = TRUE]
  ELSE StoreSelection(
         ReviewPdf(
           [acc EXCEPT !.keys = @ \cup {unique_key("spec", f.name, f.data)}],
           f, get_num_pages_safe(try_open_reader(f.data))),
         f,
         parse_pagespec(TRUE, f.text,
                        get_num_pages_safe(try_open_reader(f.data))))

\* "for f in uploaded: ..."
RECURSIVE UploadLoop(_, _)
UploadLoop(acc, files) ==
  IF files = <<>> THEN acc
  ELSE UploadLoop(UploadStep(acc, Head(files)), Tail(files))

\* -------------------------------------------------------------- the merge
Default == "Upload/scan order (default)"
Alphabetical == "Alphabetical by name"

\* SortKey without the lower-casing
SortKeyCaseSensitive(t) == Basename(t[1])

\* key=lambda t: Path(t[0]).name.lower()
SortKey(t) == Lower(Basename(t[1]))

\* e put behind the entries whose key is not greater than its own
RECURSIVE Insert(_, _)
Insert(sorted, e) ==
  IF sorted = <<>> THEN <<e>>
  ELSE IF StrLess(SortKey(e), SortKey(Head(sorted))) THEN <<e>> \o sorted
  ELSE <<Head(sorted)>> \o Insert(Tail(sorted), e)

\* sorted(file_entries, key=...): stable
RECURSIVE Sorted(_)
Sorted(entries) ==
  IF entries = <<>> THEN <<>>
  ELSE Insert(Sorted(SubSeq(entries, 1, Len(entries) - 1)),
              entries[Len(entries)])

\* AddPages without the check of idx0 against the source's page count
RECURSIVE AddPagesUnguarded(_, _, _, _)
AddPagesUnguarded(wanted, maxp, reader, entry) ==
  IF wanted = <<>> THEN <<>>
  ELSE
    LET idx0 == Head(wanted) - 1
        rest == AddPagesUnguarded(Tail(wanted), maxp, reader, entry)
    IN
    <<[data |-> reader, idx0 |-> idx0, entry |-> entry]>> \o rest

\* "for p1 in wanted: ... writer.add_page(reader.pages[idx0])"; entry is the
\* loop's iteration, kept to tell the contributions apart
RECURSIVE AddPages(_, _, _, _)
AddPages(wanted, maxp, reader, entry) ==
  IF wanted = <<>> THEN <<>>
  ELSE
    LET idx0 == Head(wanted) - 1
        rest == AddPages(Tail(wanted), maxp, reader, entry)
    IN
    IF 0 <= idx0 /\ idx0 < maxp
    THEN <<[data |-> reader, idx0 |-> idx0, entry |-> entry]>> \o rest
    ELSE rest

EmptyWriter == [pages |-> <<>>, outline |-> <<>>]

\* MergeStep with the outline item added after the entry's pages
MergeStepBookmarkLate(w, entries, k, sel, bookmarks, outline_ok) ==
  LET name == entries[k][1]
      reader == try_open_reader(entries[k][2])
      maxp == get_num_pages_safe(reader)
      wanted == IF name \in DOMAIN sel THEN sel[name] ELSE Range(1, maxp)
      w1 == [w EXCEPT !.pages = @ \o AddPages(wanted, maxp, reader, k)]
  IN
  IF reader = "None" \/ maxp < 1 THEN w
  ELSE IF bookmarks /\ wanted # <<>> /\ outline_ok
       THEN [w1 EXCEPT !.outline =
               Append(@, [title |-> Basename(name), page |-> Len(w1.pages),
                          entry |-> k])]
  ELSE w1

\* one iteration of "for name, data in file_entries"; outline_ok tells whether
\* the writer takes the outline item or raises, which the script swallows
MergeStep(w, entries, k, sel, bookmarks, outline_ok) ==
  LET name == entries[k][1]
      reader == try_open_reader(entries[k][2])
      maxp == get_num_pages_safe(reader)
      wanted == IF name \in DOMAIN sel THEN sel[name] ELSE Range(1, maxp)
      w1 == IF bookmarks /\ wanted # <<>> /\ outline_ok
            THEN [w EXCEPT !.outline =
                    Append(@, [title |-> Basename(name), page |-> Len(w.pages),
                               entry |-> k])]
            ELSE w
  IN
  IF reader = "None" \/ maxp < 1 THEN w
  ELSE [w1 EXCEPT !.pages = @ \o AddPages(wanted, maxp, reader, k)]

\* "for name, data in file_entries: ..." from entry k on
RECURSIVE MergeLoop(_, _, _, _, _, _)
MergeLoop(w, entries, k, sel, bookmarks, outline_ok) ==
  IF k > Len(entries) THEN w
  ELSE MergeLoop(MergeStep(w, entries, k, sel, bookmarks, outline_ok),
                 entries, k + 1, sel, bookmarks, outline_ok)

\* "if file_entries and selections"
Ready(up) ==
  ~up.crashed /\ up.file_entries # <<>> /\ DOMAIN up.selections # {}

\* the merge section once entered, entries being file_entries as line 463
\* leaves it
MergeSection(up, entries, bookmarks, clicked, outline_ok) ==
  [selections |-> up.selections,
   file_entries |-> entries,
   crashed |-> FALSE,
   cache |-> up.cache,
   previews |-> up.previews,
   merged |-> clicked,
   writer |-> IF clicked
              THEN MergeLoop(EmptyWriter, entries, 1, up.selections,
                             bookmarks, outline_ok)
              ELSE EmptyWriter]

\* the script below the upload tab, up being what the tab built
AfterUpload(up, bookmarks, order, clicked, outline_ok) ==
  IF Ready(up)
  THEN MergeSection(up,
                    IF order = Alphabetical
                    THEN Sorted(up.file_entries) ELSE up.file_entries,
                    bookmarks, clicked, outline_ok)
  ELSE [selections |-> up.selections,
        file_entries |-> up.file_entries,
        crashed |-> up.crashed,
        cache |-> up.cache,
        previews |-> up.previews,
        merged |-> FALSE,
        writer |-> EmptyWriter]

\* One run of the script: the upload tab, then the merge section; cache is
\* what st.cache_resource holds when the run starts.
RunScript(cache, files, bookmarks, order, clicked, outline_ok) ==
  AfterUpload(UploadLoop(StartRun(cache), files), bookmarks, order, clicked,
              outline_ok)

\* ------------------------------------------------------------- the state
VARIABLES
  spec_is_str,      \* isinstance(spec, str)
  spec_str,         \* the spec when it is a string
  spec_list,        \* the spec when it is a token list
  max_pages,        \* the page count handed to the parser
  outcome,          \* "none" before the call, then "returned" or "raised"
  result,           \* the returned list
  uploaded,         \* the uploader's files, each with its "Pages for" text
  add_bookmarks,    \* the "Add bookmarks per source file" checkbox
  keep_file_order,  \* the "File order" selectbox
  selections,       \* name -> page list, as the last run built it
  file_entries,     \* (name, data) pairs, as the last run left them
  crashed,          \* the last run stopped on a duplicate widget key
  phase,            \* "input": widgets set; "shown": script run; "merged"
  writer,           \* the PdfWriter's pages and outline items
  preview_cache,    \* st.cache_resource of _load_doc_for_preview: data -> doc
  previews          \* the previews the last run rendered

pvars == <<spec_is_str, spec_str, spec_list, max_pages, outcome, result>>
uvars == <<uploaded, add_bookmarks, keep_file_order>>
rvars == <<selections, file_entries, crashed, phase, writer, preview_cache,
          previews>>
vars == <<pvars, uvars, rvars>>

\* no file in the uploader, the widgets' defaults, no run of the script
AppStart ==
  /\ uploaded = <<>>
  /\ add_bookmarks = TRUE
  /\ keep_file_order = Default
  /\ selections = EmptyDict
  /\ file_entries = <<>>
  /\ crashed = FALSE
  /\ phase = "input"
  /\ writer = EmptyWriter
  /\ preview_cache = EmptyDict
  /\ previews = <<>>

NoCall ==
  /\ spec_is_str = TRUE /\ spec_str = <<>> /\ spec_list = <<>>
  /\ max_pages = 0 /\ outcome = "none" /\ result = <<>>

\* ------------------------------------------------- a call of the parser
Strings == UNION {[1..n -> Chars] : n \in 0..MaxLen}

\* token lists: a typed string cut at the commas with the blank tokens kept,
\* the empty list, and a list whose token holds a comma
TokenLists ==
  {Split(s, ",") : s \in Strings} \cup {<<>>, <<<<"1", ",", "2">>>>}

InitParse ==
  /\ spec_is_str \in BOOLEAN
  /\ IF spec_is_str
     THEN spec_str \in Strings /\ spec_list = <<>>
     ELSE spec_str = <<>> /\ spec_list \in TokenLists
  /\ max_pages \in 0..MaxPages
  /\ outcome = "none"
  /\ result = <<>>
  /\ AppStart

TheSpec == IF spec_is_str THEN spec_str ELSE spec_list

\* pages_list = parse_pagespec(spec, pages), returning
CallReturns ==
  /\ outcome = "none"
  /\ \E r \in {parse_pagespec(spec_is_str, TheSpec, max_pages)} :
       /\ ~r.raised
       /\ outcome' = "returned"
       /\ result' = r.pages
  /\ UNCHANGED <<spec_is_str, spec_str, spec_list, max_pages, uvars, rvars>>

\* pages_list = parse_pagespec(spec, pages), raising ValueError
CallRaises ==
  /\ outcome = "none"
  /\ parse_pagespec(spec_is_str, TheSpec, max_pages).raised
  /\ outcome' = "raised"
  /\ UNCHANGED <<spec_is_str, spec_str, spec_list, max_pages, result,
                 uvars, rvars>>

NextParse == CallReturns \/ CallRaises

SpecParse == InitParse /\ [][NextParse]_vars

\* ------------------------------------------------ the script's runs
Files == {[name |-> n, data |-> k[1], text |-> k[2]] : n \in Names,
                                                      k \in FileKinds}

SameWidget(f, g) ==
  unique_key("spec", f.name, f.data) = unique_key("spec", g.name, g.data)

\* The widgets as a user has set them: the uploader's files with the texts
\* of their fields (one text per widget key), the checkbox, the selectbox.
\* The script keeps nothing between runs, so a run depends on these alone.
Init ==
  /\ NoCall
  /\ uploaded \in UNION {[1..n -> Files] : n \in 0..MaxFiles}
  /\ \A i, j \in 1..Len(uploaded) :
       SameWidget(uploaded[i], uploaded[j]) => uploaded[i].text = uploaded[j].text
  /\ add_bookmarks \in BOOLEAN
  /\ keep_file_order \in {Default, Alphabetical}
  /\ selections = EmptyDict
  /\ file_entries = <<>>
  /\ crashed = FALSE
  /\ phase = "input"
  /\ writer = EmptyWriter
  /\ preview_cache = EmptyDict
  /\ previews = <<>>

Run(clicked, outline_ok) ==
  \E r \in {RunScript(preview_cache, uploaded, add_bookmarks,
                     keep_file_order, clicked, outline_ok)} :
    /\ selections' = r.selections
    /\ file_entries' = r.file_entries
    /\ crashed' = r.crashed
    /\ phase' = IF r.merged THEN "merged" ELSE "shown"
    /\ writer' = r.writer
    /\ preview_cache' = r.cache
    /\ previews' = r.previews
    /\ UNCHANGED <<pvars, uvars>>

\* the script runs on the widgets' values, "Merge PDFs" not clicked
ShowPage ==
  /\ phase = "input"
  /\ Run(FALSE, TRUE)

\* "Merge PDFs" is clicked and the script runs again; the button exists when
\* the last run reached it
ClickMerge ==
  /\ phase = "shown"
  /\ ~crashed /\ file_entries # <<>> /\ DOMAIN selections # {}
  /\ \E outline_ok \in BOOLEAN : Run(TRUE, outline_ok)

Next == ShowPage \/ ClickMerge

Spec == Init /\ [][Next]_vars

\* ------------------------------------------- properties of the parser
Letters == {"a", "l", "A"}

DigitChar(d) ==
  CASE d = 0 -> "0" [] d = 1 -> "1" [] d = 2 -> "2" [] d = 3 -> "3"
    [] d = 4 -> "4" [] d = 5 -> "5" [] d = 6 -> "6" [] d = 7 -> "7"
    [] d = 8 -> "8" [] d = 9 -> "9"

\* the decimal numeral of n
RECURSIVE Dec(_)
Dec(n) ==
  IF n < 10 THEN <<DigitChar(n)>> ELSE Dec(n \div 10) \o <<DigitChar(n % 10)>>

Nums == 0..NumBound
Numeral == [n \in Nums |-> Dec(n)]

\* what stands left and right of the first "-" of a token
LeftOfDash(tok) == SubSeq(tok, 1, Find(tok, "-") - 1)
RightOfDash(tok) == SubSeq(tok, Find(tok, "-") + 1, Len(tok))

\* the tokens of the spec: the comma-separated units, or the given list
TokensOfSpec == IF spec_is_str THEN Split(spec_str, ",") ELSE spec_list

\* the spec when it is a single token
OnlyToken ==
  IF Len(TokensOfSpec) = 1 THEN TokensOfSpec[1] ELSE <<",">>

RECURSIVE PerTokenConcat(_, _)
PerTokenConcat(toks, m) ==
  IF toks = <<>> THEN <<>>
  ELSE parse_one_pagespec(Head(toks), m).pages \o PerTokenConcat(Tail(toks), m)

FirstIndex(seq, v) == CHOOSE i \in 1..Len(seq) :
                        seq[i] = v /\ \A j \in 1..(i - 1) : seq[j] # v

\* C1: every element of a returned list lies in 1..max_pages (so the list is
\* empty when max_pages is 0).
C1_PagesWithinBounds ==
  outcome = "returned" =>
    \A i \in 1..Len(result) : 1 <= result[i] /\ result[i] <= max_pages

\* C3: a returned list is the concatenation of the per-token results with
\* later repeats removed: no value twice, the same values, and in the order
\* of their first occurrences.
C3_DedupKeepsFirstOccurrence ==
  outcome = "returned" =>
    LET cat == PerTokenConcat(TokensOfSpec, max_pages) IN
      /\ \A i, j \in 1..Len(result) : i # j => result[i] # result[j]
      /\ {result[i] : i \in 1..Len(result)} = {cat[i] : i \in 1..Len(cat)}
      /\ \A i, j \in 1..Len(result) :
           i < j => FirstIndex(cat, result[i]) < FirstIndex(cat, result[j])

\* "2,-2" on 2 pages: the range's 2 is the repeat that is dropped
C3_Witness ==
  /\ spec_is_str /\ spec_str = <<"2", ",", "-", "2">> /\ max_pages = 2
  /\ outcome = "returned" /\ result = <<2, 1>>

\* C4: a closed range "A-B" raises when A < 1, B < 1 or A > B on the values
\* as written, and otherwise returns min(A,max_pages)..min(B,max_pages).
C4_ClosedRange ==
  (outcome # "none" /\ Count(OnlyToken, "-") = 1) =>
    \A A \in Nums : LeftOfDash(OnlyToken) = Numeral[A] =>
      \A B \in Nums : RightOfDash(OnlyToken) = Numeral[B] =>
        IF A < 1 \/ B < 1 \/ A > B
        THEN outcome = "raised"
        ELSE /\ outcome = "returned"
             /\ result = Range(Min(A, max_pages), Min(B, max_pages))

\* "2-1" on a one-page document: inverted as written, equal once clamped
C4_Witness ==
  /\ OnlyToken = <<"2", "-", "1">> /\ max_pages = 1 /\ outcome = "raised"

\* C5: "-B" returns 1..min(B,max_pages); "A-" returns
\* min(A,max_pages)..max_pages, which is the single page max_pages when
\* A > max_pages.
C5_OpenRanges ==
  (outcome # "none" /\ Count(OnlyToken, "-") = 1) =>
    \A N \in Nums \ {0} :
      /\ OnlyToken = <<"-">> \o Numeral[N] =>
           outcome = "returned" /\ result = Range(1, Min(N, max_pages))
      /\ OnlyToken = Numeral[N] \o <<"-">> =>
           /\ outcome = "returned"
           /\ result = Range(Min(N, max_pages), max_pages)
           /\ N > max_pages => result = <<max_pages>>

\* "2-" on a one-page document
C5_Witness ==
  /\ OnlyToken = <<"2", "-">> /\ max_pages = 1
  /\ outcome = "returned" /\ result = <<1>>

\* the structurally invalid tokens, after trimming and lower-casing
StructurallyInvalid(tok) ==
  LET t == Lower(Strip(tok)) IN
    \/ t = <<"-">>
    \/ Count(t, "-") > 1
    \/ /\ Count(t, "-") = 1
       /\ \E A \in Nums : /\ LeftOfDash(t) = Numeral[A]
                          /\ \E B \in Nums : A > B /\ RightOfDash(t) = Numeral[B]
    \/ t = <<"0">>
    \/ /\ \E i \in 1..Len(t) : t[i] \in Letters
       /\ t # <<"a", "l", "l">>

\* C6: a spec with a structurally invalid token raises and returns no list,
\* for every max_pages, and whether a spec raises does not depend on
\* max_pages.
C6_InvalidTokensRaise ==
  outcome # "none" =>
    /\ (\E i \in 1..Len(TokensOfSpec) : StructurallyInvalid(TokensOfSpec[i]))
         => (outcome = "raised" /\ result = <<>>)
    /\ \A m \in 0..MaxPages :
         parse_pagespec(spec_is_str, TheSpec, m).raised <=> outcome = "raised"

\* "0" on an empty document
C6_Witness ==
  /\ spec_is_str /\ spec_str = <<"0">> /\ max_pages = 0 /\ outcome = "raised"

\* ------------------------------------------- properties of the merge
\* the uploaded file an entry was loaded from; a run that reaches the merge
\* has met no two files of one name and content
UploadedAs(e) ==
  CHOOSE i \in 1..Len(uploaded) : <<uploaded[i].name, uploaded[i].data>> = e

\* the page list parsed from a file's own text against its own page count
OwnPageList(f) ==
  parse_pagespec(TRUE, f.text,
                 get_num_pages_safe(try_open_reader(f.data))).pages

RECURSIVE Flatten(_)
Flatten(seqs) == IF seqs = <<>> THEN <<>> ELSE Head(seqs) \o Flatten(Tail(seqs))

\* what writer.pages holds, without the loop iteration
PagesView(w) == [i \in 1..Len(w.pages) |->
                   <<w.pages[i].data, w.pages[i].idx0>>]

\* the pages of entry k in the output, in output order
PagesOfEntry(k) == SelectSeq(writer.pages, LAMBDA pg : pg.entry = k)

\* the basenames of the names of the model
ExpectedBasename(name) == IF name = <<"d", "/", "a">> THEN <<"a">> ELSE name

\* C2: the merged output is, entry by entry in the resolved order, the pages
\* of the entry's own page list as 0-based indices, in page list order.
C2_OutputIsOwnPageLists ==
  phase = "merged" =>
    PagesView(writer) =
      Flatten([k \in 1..Len(file_entries) |->
                 LET own == OwnPageList(uploaded[UploadedAs(file_entries[k])])
                 IN [i \in 1..Len(own) |-> <<file_entries[k][2], own[i] - 1>>]])

\* C7: with bookmarks enabled every outline item carries its entry's basename
\* and points at an output position that holds the first page of that entry.
C7_BookmarkAtFirstPageOfEntry ==
  (phase = "merged" /\ add_bookmarks) =>
    \A b \in 1..Len(writer.outline) :
      LET bm == writer.outline[b] IN
        /\ bm.title = ExpectedBasename(file_entries[bm.entry][1])
        /\ 0 <= bm.page /\ bm.page < Len(writer.pages)
        /\ writer.pages[bm.page + 1].entry = bm.entry
        /\ \A j \in 1..bm.page : writer.pages[j].entry # bm.entry

\* C8: outline positions never decrease in processing order, increase past
\* an entry that contributed a page, and each is the number of pages appended
\* before its entry starts.
C8_BookmarkPositionsMonotone ==
  phase = "merged" =>
    /\ \A b \in 1..Len(writer.outline) :
         writer.outline[b].page =
           Cardinality({j \in 1..Len(writer.pages) :
                          writer.pages[j].entry < writer.outline[b].entry})
    /\ \A a, b \in 1..Len(writer.outline) :
         a < b =>
           /\ writer.outline[a].entry < writer.outline[b].entry
           /\ writer.outline[a].page <= writer.outline[b].page
           /\ PagesOfEntry(writer.outline[a].entry) # <<>>
                => writer.outline[a].page < writer.outline[b].page

\* two bookmarked entries, the first of two pages: positions 0 and 2
C8_Witness ==
  /\ phase = "merged" /\ Len(writer.outline) = 2
  /\ writer.outline[1].page = 0 /\ writer.outline[2].page = 2

\* the session without its i-th file
Without(files, i) == SubSeq(files, 1, i - 1) \o SubSeq(files, i + 1, Len(files))

OutlineView(w) == [i \in 1..Len(w.outline) |->
                     <<w.outline[i].title, w.outline[i].page>>]

AllTokensEmpty(text) == \A i \in 1..Len(text) : text[i] \in {" ", ","}

\* the file can be opened and its own text parses to the empty list
EmptySelection(f) ==
  /\ try_open_reader(f.data) # "None"
  /\ LET r == parse_pagespec(TRUE, f.text,
                             get_num_pages_safe(try_open_reader(f.data)))
     IN ~r.raised /\ r.pages = <<>>

\* C9: a spec of empty tokens parses to the empty list without error; a file
\* whose page list is empty puts no page and no outline item in the merge,
\* and the output is what it is without that file.
C9_EmptySelectionIsAbsent ==
  \A i \in 1..Len(uploaded) :
    /\ (AllTokensEmpty(uploaded[i].text) /\ try_open_reader(uploaded[i].data) # "None")
         => EmptySelection(uploaded[i])
    /\ (phase = "merged" /\ EmptySelection(uploaded[i])) =>
         /\ \A j \in 1..Len(writer.pages) :
              file_entries[writer.pages[j].entry]
                # <<uploaded[i].name, uploaded[i].data>>
         /\ \A j \in 1..Len(writer.outline) :
              file_entries[writer.outline[j].entry]
                # <<uploaded[i].name, uploaded[i].data>>
         /\ \E ok \in BOOLEAN :
              LET r == RunScript(preview_cache, Without(uploaded, i),
                                 add_bookmarks, keep_file_order, TRUE, ok)
              IN /\ PagesView(r.writer) = PagesView(writer)
                 /\ OutlineView(r.writer) = OutlineView(writer)
                 /\ Len(r.writer.outline) = Len(writer.outline)

\* an empty selection ahead of a bookmarked file, whose outline item stays
\* at position 0
C9_Witness ==
  /\ phase = "merged" /\ Len(uploaded) >= 2
  /\ EmptySelection(uploaded[1])
  /\ Len(writer.outline) = 1 /\ writer.outline[1].page = 0
  /\ writer.pages # <<>>

\* the rank of a name's lower-cased basename: "a" before "b"
ExpectedRank(name) == IF name = <<"b">> THEN 2 ELSE 1

\* C10: under the alphabetical policy the entries stand in ascending order
\* of the lower-cased basename, equal ones in load order; under the default
\* policy in load order; the page lists and the order of an entry's pages
\* are those of the upload tab either way.
C10_FileOrder ==
  (phase # "input" /\ ~crashed /\ file_entries # <<>>) =>
    LET up == UploadLoop(FreshRun, uploaded) IN
      /\ selections = up.selections
      /\ Len(file_entries) = Len(up.file_entries)
      /\ {file_entries[k] : k \in 1..Len(file_entries)}
           = {up.file_entries[k] : k \in 1..Len(up.file_entries)}
      /\ \A p, q \in 1..Len(file_entries) :
           p < q =>
             LET rp == ExpectedRank(file_entries[p][1])
                 rq == ExpectedRank(file_entries[q][1])
                 ip == UploadedAs(file_entries[p])
                 iq == UploadedAs(file_entries[q])
             IN IF keep_file_order = Alphabetical
                THEN rp < rq \/ (rp = rq /\ ip < iq)
                ELSE ip < iq
      /\ phase = "merged" =>
           \A k \in 1..Len(file_entries) :
             LET pgs == PagesOfEntry(k)
                 n == get_num_pages_safe(try_open_reader(file_entries[k][2]))
             IN [i \in 1..Len(pgs) |-> pgs[i].idx0 + 1]
                  = SelectSeq(selections[file_entries[k][1]],
                              LAMBDA x : 1 <= x /\ x <= n)

\* "b" uploaded before "A", merged behind it, its pages 2 then 1
C10_Witness ==
  /\ phase = "merged" /\ keep_file_order = Alphabetical
  /\ Len(uploaded) = 2 /\ Len(file_entries) = 2
  /\ uploaded[1].name = <<"b">> /\ uploaded[2].name = <<"A">>
  /\ file_entries[1][1] = <<"A">> /\ file_entries[2][1] = <<"b">>
  /\ PagesView(writer) = <<<<"d1", 0>>, <<"d3", 1>>, <<"d3", 0>>>>

\* the page list the merge loop uses for entry k
Wanted(k) == selections[file_entries[k][1]]

\* the page count of the source of entry k
PageCount(k) == get_num_pages_safe(try_open_reader(file_entries[k][2]))

\* the numbers of a page list that lie in 1..n, in list order
InRange(wanted, n) == SelectSeq(wanted, LAMBDA x : 1 <= x /\ x <= n)

\* C11: whatever page list the merge loop meets, every appended page has a
\* 0-based index within its source's page count, the numbers outside
\* 1..pageCount are skipped, and the in-range pages of that entry and of
\* every later entry are appended all the same.
C11_OutOfRangePagesSkipped ==
  phase = "merged" =>
    /\ \A j \in 1..Len(writer.pages) :
         /\ writer.pages[j].data = file_entries[writer.pages[j].entry][2]
         /\ 0 <= writer.pages[j].idx0
         /\ writer.pages[j].idx0 < PageCount(writer.pages[j].entry)
    /\ PagesView(writer) =
         Flatten([k \in 1..Len(file_entries) |->
                    LET ok == InRange(Wanted(k), PageCount(k))
                    IN [i \in 1..Len(ok) |-> <<file_entries[k][2], ok[i] - 1>>]])

\* "b" of one page merged with the list <<2, 1>> stored for the later "b":
\* 2 is skipped, 1 is appended, and so are the pages of the next entry
C11_Witness ==
  /\ phase = "merged"
  /\ file_entries = <<<<<<"b">>, "d1">>, <<<<"b">>, "d3">>>>
  /\ selections[<<"b">>] = <<2, 1>>
  /\ PagesView(writer) = <<<<"d1", 0>>, <<"d3", 1>>, <<"d3", 0>>>>

\* two uploaded files of one display name and different bytes
NameClash(i, j) ==
  /\ uploaded[i].name = uploaded[j].name
  /\ uploaded[i].data # uploaded[j].data

\* C12: when two loaded files share a display name and differ in bytes, the
\* preview document returned for each is the one opened from its own bytes,
\* and the pages merged for each are those of the page list parsed from its
\* own spec against its own page count.
C12_NoResultForWrongFile ==
  \A i, j \in 1..Len(uploaded) :
    (phase # "input" /\ NameClash(i, j)) =>
      /\ \A p \in 1..Len(previews) :
           (previews[p].name = uploaded[i].name
              /\ previews[p].data = uploaded[i].data)
             => previews[p].doc = OpenPreview(uploaded[i].data)
      /\ phase = "merged" =>
           \A k \in 1..Len(file_entries) :
             file_entries[k] = <<uploaded[i].name, uploaded[i].data>> =>
               LET ok == InRange(OwnPageList(uploaded[i]), PageCount(k))
                   pgs == PagesOfEntry(k)
               IN [x \in 1..Len(pgs) |-> pgs[x].idx0 + 1] = ok

====
